---- MODULE Spec2Model ----
(***************************************************************************)
(* State-machine model of the bclot lottery program                        *)
(* (programs/bclot/src/{lib,admin,automation,vrf}.rs).                     *)
(*                                                                         *)
(* Every instruction is one action.  An instruction that returns Err, or   *)
(* panics, aborts its transaction: nothing it wrote is kept.  For each     *)
(* instruction an operator <name>_err gives the error it ends with, or     *)
(* "Ok", in the current state.                                             *)
(* Option<T> values are sequences: <<>> is None and <<v>> is Some(v).      *)
(***************************************************************************)
EXTENDS Integers, Sequences, FiniteSets

\* ------------------------------------------------------------ constants
MAX_TICKETS_PER_PLAYER == 5
ROUND_DURATION == 900
MAX_ENTRANCE_FEE == 20

\* ------------------------------------------------------------ bounds
MaxTicks == 1        \* the clock advances at most this many half rounds
MaxSteps == 3        \* transactions that change an account

Assets == {"SOL", "TOK"}
Players == {"A", "B"}
CountInputs == {0, 1, 3, MAX_TICKETS_PER_PLAYER + 1}
FeeInputs == {0, MAX_ENTRANCE_FEE, MAX_ENTRANCE_FEE + 1}
RandInputs == {1, 7}
SlotInputs == {1, 2}
RoundIds == {0, 1}

None == <<>>
Some(v) == <<v>>

VARIABLES now, lottery_state, lotteries, player_data, vrf_requests, vault, steps

\* The accounts of the program.
accounts == <<lottery_state, lotteries, player_data, vrf_requests, vault>>

vars == <<now, lottery_state, lotteries, player_data, vrf_requests, vault, steps>>

\* ------------------------------------------------------------ helpers
\* token_mint: Option<Pubkey> of an asset; None stands for the SOL pool.
token_mint_of(a) == IF a = "SOL" THEN None ELSE Some(a)

asset_of(token_mint) == IF token_mint = None THEN "SOL" ELSE token_mint[1]

\* (x * pct) / 100 in u64 arithmetic, evaluated without leaving 32 bits:
\* x = 100q + r gives floor(x * pct / 100) = q * pct + floor(r * pct / 100).
percent_of(x, pct) == (x \div 100) * pct + ((x % 100) * pct) \div 100

calculate_ticket_price_for_sol == 25000000

calculate_ticket_price_for_token == 5000000

ticket_price(a) ==
    IF a = "SOL" THEN calculate_ticket_price_for_sol
    ELSE calculate_ticket_price_for_token

\* Mutant of get_temporary_close_time: a full ROUND_DURATION from the timestamp.
get_temporary_close_time_from_now(current_timestamp) ==
    current_timestamp + ROUND_DURATION

get_temporary_close_time(current_timestamp) ==
    LET round_active_time == current_timestamp % ROUND_DURATION
    IN  current_timestamp - round_active_time + ROUND_DURATION

get_next_round_time(current_timestamp) ==
    LET round_active_time == current_timestamp % ROUND_DURATION
    IN  current_timestamp - round_active_time + ROUND_DURATION

NewRound(current_timestamp) ==
    [ status |-> "Open",
      start_time |-> current_timestamp,
      end_time |-> get_temporary_close_time(current_timestamp),
      pool_balance |-> 0,
      commission_balance |-> 0,
      tickets |-> <<>>,
      winner_address |-> None,
      winner_ticket_index |-> None,
      prize_claimed |-> FALSE ]

\* Mutant of has_active_round: the round's end_time is not compared with the clock.
has_active_round_no_expiry(rounds, current_timestamp) ==
    /\ rounds # <<>>
    /\ rounds[Len(rounds)].status = "Open"

\* Mutant of has_active_round: the round's status is not looked at.
has_active_round_any_status(rounds, current_timestamp) ==
    /\ rounds # <<>>
    /\ current_timestamp < rounds[Len(rounds)].end_time

\* TRUE when get_or_create_round returns the latest round instead of pushing one.
has_active_round(rounds, current_timestamp) ==
    /\ rounds # <<>>
    /\ rounds[Len(rounds)].status = "Open"
    /\ current_timestamp < rounds[Len(rounds)].end_time

\* Mutant of get_or_create_round: a round is pushed on every call.
get_or_create_round_always_new(rounds, current_timestamp) ==
    Append(rounds, NewRound(current_timestamp))

\* The rounds after the call; the returned id is Len of the result minus one.
get_or_create_round(rounds, current_timestamp) ==
    IF has_active_round(rounds, current_timestamp)
    THEN rounds
    ELSE Append(rounds, NewRound(current_timestamp))

Repeat(x, n) == [i \in 1..n |-> x]

\* Mutant of is_first_buyer: the bonus is granted on every purchase.
is_first_buyer_every_purchase(round) == TRUE

\* Mutant of is_first_buyer: no purchase is taken for the first of its round.
is_first_buyer_never(round) == FALSE

is_first_buyer(round) == round.tickets = <<>>

purchase_commission(total_cost, entrance_fee_percentage) ==
    percent_of(total_cost, entrance_fee_percentage)

\* Mutant of add_tickets_to_round: the whole cost is added to the pool, the
\* commission is not taken out of it.
add_tickets_to_round_gross(round, count, price, player, entrance_fee_percentage, timestamp) ==
    LET total_cost == price * count
        commission == percent_of(total_cost, entrance_fee_percentage)
        regular == [owner |-> player, price |-> price,
                    timestamp |-> timestamp, is_bonus |-> FALSE]
        bonus == [owner |-> player, price |-> 0,
                  timestamp |-> timestamp, is_bonus |-> TRUE]
    IN  [round EXCEPT
            !.pool_balance = @ + total_cost,
            !.commission_balance = @ + commission,
            !.tickets = @ \o Repeat(regular, count)
                          \o (IF round.tickets = <<>> THEN <<bonus>> ELSE <<>>)]

\* Mutant of add_tickets_to_round: the bonus ticket is pushed before the
\* regular tickets.
add_tickets_to_round_bonus_first(round, count, price, player, entrance_fee_percentage, timestamp) ==
    LET total_cost == price * count
        commission == percent_of(total_cost, entrance_fee_percentage)
        regular == [owner |-> player, price |-> price,
                    timestamp |-> timestamp, is_bonus |-> FALSE]
        bonus == [owner |-> player, price |-> 0,
                  timestamp |-> timestamp, is_bonus |-> TRUE]
    IN  [round EXCEPT
            !.pool_balance = @ + (total_cost - commission),
            !.commission_balance = @ + commission,
            !.tickets = @ \o (IF round.tickets = <<>> THEN <<bonus>> ELSE <<>>)
                          \o Repeat(regular, count)]

\* Mutant of add_tickets_to_round: the payment is booked and no ticket is pushed.
add_tickets_to_round_no_push(round, count, price, player, entrance_fee_percentage, timestamp) ==
    LET total_cost == price * count
        commission == percent_of(total_cost, entrance_fee_percentage)
    IN  [round EXCEPT
            !.pool_balance = @ + (total_cost - commission),
            !.commission_balance = @ + commission]

add_tickets_to_round(round, count, price, player, entrance_fee_percentage, timestamp) ==
    LET total_cost == price * count
        commission == purchase_commission(total_cost, entrance_fee_percentage)
        pool_amount == total_cost - commission
        regular == [owner |-> player, price |-> price,
                    timestamp |-> timestamp, is_bonus |-> FALSE]
        bonus == [owner |-> player, price |-> 0,
                  timestamp |-> timestamp, is_bonus |-> TRUE]
    IN  [round EXCEPT
            !.pool_balance = @ + pool_amount,
            !.commission_balance = @ + commission,
            !.tickets = @ \o Repeat(regular, count)
                          \o (IF is_first_buyer(round) THEN <<bonus>> ELSE <<>>)]

\* ------------------------------------------------------------ initial state
initialize_lottery_err(entrance_fee_percentage) ==
    IF entrance_fee_percentage <= MAX_ENTRANCE_FEE THEN "Ok" ELSE "InvalidEntranceFee"

\* initialize_lottery has run, half way through a period of ROUND_DURATION and
\* with the highest fee it accepts; no pool, player or randomness account
\* exists yet and the vaults are empty.
Init ==
    /\ now = ROUND_DURATION \div 2
    /\ initialize_lottery_err(MAX_ENTRANCE_FEE) = "Ok"
    /\ lottery_state = [ entrance_fee_percentage |-> MAX_ENTRANCE_FEE,
                         supported_tokens |-> {},
                         last_timestamp |-> now,
                         has_active_lottery |-> FALSE ]
    /\ lotteries = [a \in Assets |-> <<>>]
    /\ player_data = [p \in Players, a \in Assets |->
                         [tickets_count |-> 0, has_bonus_ticket |-> FALSE]]
    /\ vrf_requests = [k \in RoundIds |-> None]
    /\ vault = [a \in Assets |-> 0]
    /\ steps = 0

\* Clock::get() is monotonic; time passes between transactions.
Tick ==
    /\ now < (MaxTicks + 1) * (ROUND_DURATION \div 2)
    /\ now' = now + ROUND_DURATION \div 2
    /\ UNCHANGED <<lottery_state, lotteries, player_data, vrf_requests, vault, steps>>

\* `steps` counts the transactions that changed an account; the model follows
\* the program for MaxSteps of them.
Counted ==
    IF UNCHANGED accounts
    THEN steps' = steps
    ELSE steps < MaxSteps /\ steps' = steps + 1

\* ------------------------------------------------------------ purchases
\* The Err of buy_tickets_sol / buy_tickets_spl, or "Ok".  `funded` is the
\* payment rail's answer: whether the player's transfer of total_cost succeeds.
\* Mutant of buy_tickets_err: the upper bound of the count is off by one.
buy_tickets_err_off_by_one(a, count, funded) ==
    IF ~(count > 0 /\ count <= MAX_TICKETS_PER_PLAYER + 1) THEN "InvalidTicketCount"
    ELSE IF a # "SOL" /\ a \notin lottery_state.supported_tokens THEN "TokenNotSupported"
    ELSE IF ~funded THEN (IF a = "SOL" THEN "InsufficientFunds" ELSE "TransferFailed")
    ELSE "Ok"

buy_tickets_err(a, count, funded) ==
    IF ~(count > 0 /\ count <= MAX_TICKETS_PER_PLAYER) THEN "InvalidTicketCount"
    ELSE IF a # "SOL" /\ a \notin lottery_state.supported_tokens THEN "TokenNotSupported"
    ELSE IF ~funded THEN (IF a = "SOL" THEN "InsufficientFunds" ELSE "TransferFailed")
    ELSE "Ok"

\* Mutant of player_data_after: the bonus ticket is not counted.
player_data_after_no_bonus(data, round, count) ==
    [ tickets_count |-> data.tickets_count + count,
      has_bonus_ticket |-> data.has_bonus_ticket \/ is_first_buyer(round) ]

\* player_data after add_tickets_to_round on `round` (the round before the call).
player_data_after(data, round, count) ==
    [ tickets_count |-> data.tickets_count + count
                          + (IF is_first_buyer(round) THEN 1 ELSE 0),
      has_bonus_ticket |-> data.has_bonus_ticket \/ is_first_buyer(round) ]

buy_tickets(a, player, count, funded) ==
    LET err == buy_tickets_err(a, count, funded)
        rounds == get_or_create_round(lotteries[a], now)
        created == Len(rounds) > Len(lotteries[a])
        id == Len(rounds)
        price == ticket_price(a)
        fee == lottery_state.entrance_fee_percentage
    IN  /\ IF err = "Ok"
           THEN /\ (id - 1) \in RoundIds
                /\ lotteries' = [lotteries EXCEPT ![a] =
                      [rounds EXCEPT ![id] =
                          add_tickets_to_round(@, count, price, player, fee, now)]]
                /\ lottery_state' =
                      IF created
                      THEN [lottery_state EXCEPT !.last_timestamp = now,
                                                 !.has_active_lottery = TRUE]
                      ELSE lottery_state
                /\ player_data' = [player_data EXCEPT ![player, a] =
                      player_data_after(@, rounds[id], count)]
                /\ vault' = [vault EXCEPT ![a] = @ + price * count]
                /\ UNCHANGED <<now, vrf_requests>>
           ELSE UNCHANGED <<now, lottery_state, lotteries, player_data, vrf_requests, vault>>

buy_tickets_sol ==
    \E player \in Players, count \in CountInputs, funded \in BOOLEAN :
        buy_tickets("SOL", player, count, funded) /\ Counted

buy_tickets_spl ==
    \E player \in Players, count \in CountInputs, funded \in BOOLEAN :
        buy_tickets("TOK", player, count, funded) /\ Counted

add_supported_token(token_mint) ==
    LET err == IF token_mint \in lottery_state.supported_tokens
               THEN "TokenAlreadySupported" ELSE "Ok"
    IN  /\ lottery_state' =
              IF err = "Ok"
              THEN [lottery_state EXCEPT !.supported_tokens = @ \cup {token_mint}]
              ELSE lottery_state
        /\ UNCHANGED <<now, lotteries, player_data, vrf_requests, vault>>

AddSupportedToken == add_supported_token("TOK") /\ Counted

\* ------------------------------------------------------------ winner selection
\* Mutant of select_winner_index: the bonus ticket at the end of a first
\* purchase is left out of the draw.
select_winner_index_short(randomness, ticket_count) ==
    IF ticket_count > 1 THEN randomness % (ticket_count - 1) ELSE 0

select_winner_index(randomness, ticket_count) == randomness % ticket_count

\* Mutant of pick_winner: the winner is the owner of the first ticket.
pick_winner_first_owner(round, randomness) ==
    LET winner_ticket_index == select_winner_index(randomness, Len(round.tickets))
    IN  [round EXCEPT !.winner_address = Some(round.tickets[1].owner),
                      !.winner_ticket_index = Some(winner_ticket_index),
                      !.status = "Closed"]

\* The round after either resolution path has picked its winner.
pick_winner(round, randomness) ==
    LET winner_ticket_index == select_winner_index(randomness, Len(round.tickets))
        winning_ticket == round.tickets[winner_ticket_index + 1]
    IN  [round EXCEPT !.winner_address = Some(winning_ticket.owner),
                      !.winner_ticket_index = Some(winner_ticket_index),
                      !.status = "Closed"]

\* The close-time split of close_round_and_pick_winner.
close_split(round, entrance_fee_percentage) ==
    LET commission == percent_of(round.pool_balance, entrance_fee_percentage)
        prize_amount == round.pool_balance - commission
    IN  [round EXCEPT !.commission_balance = commission,
                      !.pool_balance = prize_amount]

close_round_err(a) ==
    LET rounds == lotteries[a]
    IN  IF rounds = <<>> THEN "NoActiveRound"
        ELSE IF rounds[Len(rounds)].status # "Open" THEN "RoundNotOpen"
        ELSE IF rounds[Len(rounds)].tickets = <<>> THEN "NoTicketsInRound"
        ELSE "Ok"

close_round_and_pick_winner(a, randomness) ==
    LET err == close_round_err(a)
        id == Len(lotteries[a])
    IN  /\ lotteries' =
              IF err = "Ok"
              THEN [lotteries EXCEPT ![a][id] =
                      close_split(pick_winner(@, randomness),
                                  lottery_state.entrance_fee_percentage)]
              ELSE lotteries
        /\ UNCHANGED <<now, lottery_state, player_data, vrf_requests, vault>>

CloseRound ==
    \E a \in Assets, randomness \in RandInputs :
        close_round_and_pick_winner(a, randomness) /\ Counted

\* ------------------------------------------------------------ claims
\* `paid` is the payment rail's answer: the vault holds what the claim releases.
\* Mutant of claim_prize_err: the prize_claimed flag is not consulted.
claim_prize_err_no_flag(a, round_id, caller) ==
    IF round_id >= Len(lotteries[a]) THEN "IndexOutOfBounds"
    ELSE LET round == lotteries[a][round_id + 1]
         IN  IF round.status # "Closed" THEN "RoundNotClosed"
             ELSE IF round.winner_address # Some(caller) THEN "NotTheWinner"
             ELSE IF vault[a] < round.pool_balance + round.commission_balance
                  THEN "TransferFailed"
             ELSE "Ok"

\* Mutant of claim_prize_err: the caller is not compared with the winner.
claim_prize_err_any_caller(a, round_id, caller) ==
    IF round_id >= Len(lotteries[a]) THEN "IndexOutOfBounds"
    ELSE LET round == lotteries[a][round_id + 1]
         IN  IF round.status # "Closed" THEN "RoundNotClosed"
             ELSE IF round.prize_claimed THEN "PrizeAlreadyClaimed"
             ELSE IF vault[a] < round.pool_balance + round.commission_balance
                  THEN "TransferFailed"
             ELSE "Ok"

\* Mutant of claim_prize_err: a round waiting for its randomness passes the
\* status check like a Closed one.
claim_prize_err_pending_ok(a, round_id, caller) ==
    IF round_id >= Len(lotteries[a]) THEN "IndexOutOfBounds"
    ELSE LET round == lotteries[a][round_id + 1]
         IN  IF round.status = "Open" THEN "RoundNotClosed"
             ELSE IF round.winner_address # Some(caller) THEN "NotTheWinner"
             ELSE IF round.prize_claimed THEN "PrizeAlreadyClaimed"
             ELSE IF vault[a] < round.pool_balance + round.commission_balance
                  THEN "TransferFailed"
             ELSE "Ok"

claim_prize_err(a, round_id, caller) ==
    IF round_id >= Len(lotteries[a]) THEN "IndexOutOfBounds"
    ELSE LET round == lotteries[a][round_id + 1]
         IN  IF round.status # "Closed" THEN "RoundNotClosed"
             ELSE IF round.winner_address # Some(caller) THEN "NotTheWinner"
             ELSE IF round.prize_claimed THEN "PrizeAlreadyClaimed"
             ELSE IF vault[a] < round.pool_balance + round.commission_balance
                  THEN "TransferFailed"
             ELSE "Ok"

claim_prize(a, round_id, caller) ==
    LET err == claim_prize_err(a, round_id, caller)
        round == lotteries[a][round_id + 1]
    IN  /\ IF err = "Ok"
           THEN /\ lotteries' = [lotteries EXCEPT ![a][round_id + 1].prize_claimed = TRUE]
                /\ vault' = [vault EXCEPT ![a] =
                                @ - round.pool_balance - round.commission_balance]
           ELSE UNCHANGED <<lotteries, vault>>
        /\ UNCHANGED <<now, lottery_state, player_data, vrf_requests>>

claim_prize_sol ==
    \E round_id \in RoundIds, caller \in Players : claim_prize("SOL", round_id, caller) /\ Counted

claim_prize_spl ==
    \E round_id \in RoundIds, caller \in Players : claim_prize("TOK", round_id, caller) /\ Counted

\* ------------------------------------------------------------ randomness
\* The VrfRequest account is a PDA seeded by the round id alone, so
\* vrf_requests is keyed by round id; init_if_needed reuses an existing account.
\* requested_at is written here and read nowhere; the model leaves it out.
request_randomness_for_round(a, round_id) ==
    /\ vrf_requests' = [vrf_requests EXCEPT ![round_id] =
          Some([ round_id |-> round_id,
                 token_mint |-> token_mint_of(a),
                 fulfilled |-> FALSE,
                 randomness |-> None ])]
    /\ UNCHANGED <<now, lottery_state, lotteries, player_data, vault>>

RequestRandomness ==
    \E a \in Assets, round_id \in RoundIds :
        request_randomness_for_round(a, round_id) /\ Counted

\* Mutant of vrf_callback_err: the replay guard is missing.
vrf_callback_err_no_guard(round_id) ==
    IF vrf_requests[round_id] = None THEN "AccountNotInitialized" ELSE "Ok"

vrf_callback_err(round_id) ==
    IF vrf_requests[round_id] = None THEN "AccountNotInitialized"
    ELSE IF vrf_requests[round_id][1].fulfilled THEN "RandomnessAlreadyConsumed"
    ELSE "Ok"

vrf_callback(round_id, value) ==
    LET err == vrf_callback_err(round_id)
    IN  /\ vrf_requests' =
              IF err = "Ok"
              THEN [vrf_requests EXCEPT ![round_id] =
                      Some([@[1] EXCEPT !.randomness = Some(value), !.fulfilled = TRUE])]
              ELSE vrf_requests
        /\ UNCHANGED <<now, lottery_state, lotteries, player_data, vault>>

VrfCallback ==
    \E round_id \in RoundIds, value \in RandInputs :
        vrf_callback(round_id, value) /\ Counted

\* slot * unix_timestamp * round_id, wrapping in u128 and cut to u64; the
\* bounded clock and round ids keep the product far below 2^64.
pseudo_randomness(slot, unix_timestamp, round_id) == slot * unix_timestamp * round_id

\* Mutant of pick_winner_for_lottery_err: the round's status is not checked.
pick_winner_for_lottery_err_any_status(rounds, round_id) ==
    IF ~(round_id < Len(rounds)) THEN "InvalidRoundId"
    ELSE IF rounds[round_id + 1].tickets = <<>> THEN "NoTicketsInRound"
    ELSE "Ok"

pick_winner_for_lottery_err(rounds, round_id) ==
    IF ~(round_id < Len(rounds)) THEN "InvalidRoundId"
    ELSE IF rounds[round_id + 1].status # "Open" THEN "RoundNotOpen"
    ELSE IF rounds[round_id + 1].tickets = <<>> THEN "NoTicketsInRound"
    ELSE "Ok"

\* `lottery_given`: whether the optional pool account the request's token_mint
\* selects (token_lottery or sol_lottery) was passed to the instruction.
consume_randomness_err(round_id, lottery_given) ==
    IF vrf_requests[round_id] = None THEN "AccountNotInitialized"
    ELSE IF vrf_requests[round_id][1].fulfilled THEN "RandomnessAlreadyConsumed"
    ELSE IF lottery_given
         THEN pick_winner_for_lottery_err(
                  lotteries[asset_of(vrf_requests[round_id][1].token_mint)], round_id)
    ELSE "Ok"

consume_randomness_and_pick_winner(round_id, lottery_given, slot) ==
    LET err == consume_randomness_err(round_id, lottery_given)
        a == asset_of(vrf_requests[round_id][1].token_mint)
        randomness == pseudo_randomness(slot, now, round_id)
    IN  /\ IF err = "Ok"
           THEN /\ vrf_requests' = [vrf_requests EXCEPT ![round_id] =
                       Some([@[1] EXCEPT !.fulfilled = TRUE])]
                /\ lotteries' =
                       IF lottery_given
                       THEN [lotteries EXCEPT ![a][round_id + 1] = pick_winner(@, randomness)]
                       ELSE lotteries
           ELSE UNCHANGED <<vrf_requests, lotteries>>
        /\ UNCHANGED <<now, lottery_state, player_data, vault>>

ConsumeRandomness ==
    \E round_id \in RoundIds, lottery_given \in BOOLEAN, slot \in SlotInputs :
        consume_randomness_and_pick_winner(round_id, lottery_given, slot) /\ Counted

\* ------------------------------------------------------------ automation
check_upkeep == now > lottery_state.last_timestamp /\ lottery_state.has_active_lottery

\* Mutant of perform_upkeep_err: has_active_lottery is not consulted.
perform_upkeep_err_time_only ==
    IF now > lottery_state.last_timestamp THEN "Ok" ELSE "UpkeepNotNeeded"

perform_upkeep_err ==
    IF now > lottery_state.last_timestamp /\ lottery_state.has_active_lottery
    THEN "Ok" ELSE "UpkeepNotNeeded"

perform_upkeep ==
    LET err == perform_upkeep_err
    IN  /\ lottery_state' =
              IF err = "Ok"
              THEN [lottery_state EXCEPT !.last_timestamp = get_next_round_time(now),
                                         !.has_active_lottery = FALSE]
              ELSE lottery_state
        /\ UNCHANGED <<now, lotteries, player_data, vrf_requests, vault>>

\* The checks auto_close_round makes on the pool's latest round.
auto_close_round_check(round) ==
    IF round.status # "Open" THEN "RoundNotOpen"
    ELSE IF ~(now >= round.end_time) THEN "RoundStillActive"
    ELSE "Ok"

auto_close_round_err(a) ==
    LET rounds == lotteries[a]
    IN  IF rounds = <<>> THEN "Ok"
        ELSE auto_close_round_check(rounds[Len(rounds)])

\* Mutant of mark_pending: the round's end_time is not compared with the clock.
mark_pending_any_time(rounds) ==
    IF /\ rounds # <<>>
       /\ rounds[Len(rounds)].status = "Open"
    THEN [rounds EXCEPT ![Len(rounds)].status = "PendingVrf"]
    ELSE rounds

\* Mutant of mark_pending: the round's status is not looked at.
mark_pending_any_status(rounds) ==
    IF /\ rounds # <<>>
       /\ now >= rounds[Len(rounds)].end_time
    THEN [rounds EXCEPT ![Len(rounds)].status = "PendingVrf"]
    ELSE rounds

\* The pool's rounds with the latest one, if Open and expired, marked PendingVrf.
mark_pending(rounds) ==
    IF /\ rounds # <<>>
       /\ rounds[Len(rounds)].status = "Open"
       /\ now >= rounds[Len(rounds)].end_time
    THEN [rounds EXCEPT ![Len(rounds)].status = "PendingVrf"]
    ELSE rounds

auto_close_round(a) ==
    LET err == auto_close_round_err(a)
    IN  /\ lotteries' =
              IF err = "Ok"
              THEN [lotteries EXCEPT ![a] = mark_pending(@)]
              ELSE lotteries
        /\ UNCHANGED <<now, lottery_state, player_data, vrf_requests, vault>>

AutoCloseRound == \E a \in Assets : auto_close_round(a) /\ Counted

\* Only the SOL pool is processed; the token pools are logged, not loaded.
batch_process_rounds(sol_lottery_given) ==
    /\ lotteries' =
          IF sol_lottery_given
          THEN [lotteries EXCEPT !["SOL"] = mark_pending(@)]
          ELSE lotteries
    /\ UNCHANGED <<now, lottery_state, player_data, vrf_requests, vault>>

BatchProcessRounds == \E given \in BOOLEAN : batch_process_rounds(given) /\ Counted

\* ------------------------------------------------------------ administration
\* Mutant of update_entrance_fee_err: the bound is off by one.
update_entrance_fee_err_off_by_one(new_fee_percentage) ==
    IF new_fee_percentage <= MAX_ENTRANCE_FEE + 1 THEN "Ok" ELSE "InvalidEntranceFee"

update_entrance_fee_err(new_fee_percentage) ==
    IF new_fee_percentage <= MAX_ENTRANCE_FEE THEN "Ok" ELSE "InvalidEntranceFee"

update_entrance_fee(new_fee_percentage) ==
    LET err == update_entrance_fee_err(new_fee_percentage)
    IN  /\ lottery_state' =
              IF err = "Ok"
              THEN [lottery_state EXCEPT !.entrance_fee_percentage = new_fee_percentage]
              ELSE lottery_state
        /\ UNCHANGED <<now, lotteries, player_data, vrf_requests, vault>>

UpdateEntranceFee == \E fee \in FeeInputs : update_entrance_fee(fee) /\ Counted

emergency_pause ==
    /\ lottery_state' = [lottery_state EXCEPT !.has_active_lottery = FALSE]
    /\ UNCHANGED <<now, lotteries, player_data, vrf_requests, vault>>

\* Mutant of withdraw_commission_err: the vault's balance is not checked.
withdraw_commission_err_no_check(a, amount) == "Ok"

\* withdraw_commission_sol checks the vault itself; withdraw_commission_spl
\* leaves the check to the token program's transfer.
withdraw_commission_err(a, amount) ==
    IF vault[a] >= amount THEN "Ok"
    ELSE IF a = "SOL" THEN "InsufficientFunds" ELSE "TransferFailed"

withdraw_commission(a, amount) ==
    LET err == withdraw_commission_err(a, amount)
    IN  /\ vault' = IF err = "Ok" THEN [vault EXCEPT ![a] = @ - amount] ELSE vault
        /\ UNCHANGED <<now, lottery_state, lotteries, player_data, vrf_requests>>

WithdrawCommission == \E a \in Assets : withdraw_commission(a, ticket_price(a)) /\ Counted

\* ------------------------------------------------------------ specification
PerformUpkeep == perform_upkeep /\ Counted

EmergencyPause == emergency_pause /\ Counted

Next ==
    \/ Tick
    \/ AddSupportedToken
    \/ buy_tickets_sol
    \/ buy_tickets_spl
    \/ CloseRound
    \/ claim_prize_sol
    \/ claim_prize_spl
    \/ RequestRandomness
    \/ VrfCallback
    \/ ConsumeRandomness
    \/ PerformUpkeep
    \/ AutoCloseRound
    \/ BatchProcessRounds
    \/ UpdateEntranceFee
    \/ EmergencyPause
    \/ WithdrawCommission

Spec == Init /\ [][Next]_vars

\* ============================================================ claims
\* The rounds of pool a, as (asset, round id) pairs, and their records.
RoundRefs == {ref \in Assets \X RoundIds : ref[2] < Len(lotteries[ref[1]])}

RoundAt(ref) == lotteries[ref[1]][ref[2] + 1]

RoundAtNext(ref) == lotteries'[ref[1]][ref[2] + 1]

RECURSIVE NonBonusSum(_)
NonBonusSum(tickets) ==
    IF tickets = <<>> THEN 0
    ELSE (IF Head(tickets).is_bonus THEN 0 ELSE Head(tickets).price)
           + NonBonusSum(Tail(tickets))

BonusIndices(tickets) == {i \in DOMAIN tickets : tickets[i].is_bonus}

Owners(tickets) == [i \in DOMAIN tickets |-> tickets[i].owner]

IsPrefix(s, t) == Len(s) <= Len(t) /\ SubSeq(t, 1, Len(s)) = s

\* The request account of round id k exists.
Requested(k) == vrf_requests[k] # None

\* The request account of round id k is bound to the round ref.
BoundTo(k, ref) ==
    /\ Requested(k)
    /\ k = ref[2]
    /\ asset_of(vrf_requests[k][1].token_mint) = ref[1]

\* ------------------------------------------------------------ C1
C1_Rejected ==
    \A ref \in RoundRefs :
        RoundAt(ref).prize_claimed =>
            /\ \A caller \in Players :
                  claim_prize_err(ref[1], ref[2], caller) # "Ok"
            /\ \A caller \in Players :
                  RoundAt(ref).winner_address = Some(caller) =>
                      claim_prize_err(ref[1], ref[2], caller) = "PrizeAlreadyClaimed"

C1_Step ==
    \A ref \in RoundRefs :
        RoundAt(ref).prize_claimed =>
            /\ RoundAtNext(ref).prize_claimed
            /\ \A caller \in Players :
                  claim_prize(ref[1], ref[2], caller) => UNCHANGED <<lotteries, vault>>

\* C1: claim_prize succeeds at most once per round.  Once a round's
\* prize_claimed flag is set it stays set, every later claim_prize on the
\* round is rejected (with PrizeAlreadyClaimed when the caller is the winner)
\* and no such call changes a round or a vault, so pool_balance and
\* commission_balance are released at most once.
C1_ClaimAtMostOnce == []C1_Rejected /\ [][C1_Step]_vars

\* A round whose prize was claimed, where the winner's next claim is rejected.
C1_Witness ==
    \E ref \in RoundRefs, caller \in Players :
        /\ RoundAt(ref).prize_claimed
        /\ RoundAt(ref).winner_address = Some(caller)
        /\ claim_prize_err(ref[1], ref[2], caller) = "PrizeAlreadyClaimed"

\* ------------------------------------------------------------ C2
IsLatest(ref) == ref[2] + 1 = Len(lotteries[ref[1]])

C2_WinnerKept ==
    \A ref \in RoundRefs :
        RoundAt(ref).status = "Closed" =>
            /\ RoundAtNext(ref).status = "Closed"
            /\ RoundAtNext(ref).winner_address = RoundAt(ref).winner_address
            /\ RoundAtNext(ref).winner_ticket_index = RoundAt(ref).winner_ticket_index

\* C2 as stated, for the attempts that are handed the round: every
\* close_round_and_pick_winner on a Closed latest round, and every
\* consume_randomness_and_pick_winner that is passed the pool account of a
\* Closed round, ends with RoundNotOpen.
C2_AlwaysRoundNotOpen ==
    \A ref \in RoundRefs :
        RoundAt(ref).status = "Closed" =>
            /\ IsLatest(ref) => close_round_err(ref[1]) = "RoundNotOpen"
            /\ \A k \in RoundIds :
                  BoundTo(k, ref) => consume_randomness_err(k, TRUE) = "RoundNotOpen"

C2_Outcomes ==
    \A ref \in RoundRefs :
        RoundAt(ref).status = "Closed" =>
            /\ IsLatest(ref) => close_round_err(ref[1]) = "RoundNotOpen"
            /\ \A k \in RoundIds :
                  BoundTo(k, ref) =>
                      IF vrf_requests[k][1].fulfilled
                      THEN /\ consume_randomness_err(k, TRUE) = "RandomnessAlreadyConsumed"
                           /\ consume_randomness_err(k, FALSE) = "RandomnessAlreadyConsumed"
                      ELSE /\ consume_randomness_err(k, TRUE) = "RoundNotOpen"
                           /\ consume_randomness_err(k, FALSE) = "Ok"

\* C2 (amended): a round is resolved at most once.  No step changes the
\* status, winner_address or winner_ticket_index of a Closed round.
\* close_round_and_pick_winner on it is rejected with RoundNotOpen;
\* consume_randomness_and_pick_winner for it is rejected with
\* RandomnessAlreadyConsumed when its request is already fulfilled, with
\* RoundNotOpen when the request is unfulfilled and the pool account is passed,
\* and returns Ok without touching the round when the pool account is omitted.
C2_ResolvedOnce == []C2_Outcomes /\ [][C2_WinnerKept]_vars

\* A Closed round with an unfulfilled request bound to it: the oracle path is
\* attempted on a round the administrator path resolved.
C2_Witness ==
    \E ref \in RoundRefs, k \in RoundIds :
        /\ RoundAt(ref).status = "Closed"
        /\ BoundTo(k, ref)
        /\ ~vrf_requests[k][1].fulfilled
        /\ consume_randomness_err(k, TRUE) = "RoundNotOpen"

\* ------------------------------------------------------------ C3
\* C3 as stated: once a request is fulfilled it stays fulfilled and keeps its
\* stored value, whatever instruction runs next (request_randomness_for_round
\* included).
C3_FulfilledStep ==
    \A k \in RoundIds :
        (Requested(k) /\ vrf_requests[k][1].fulfilled) =>
            /\ vrf_requests'[k] # None
            /\ vrf_requests'[k][1].fulfilled
            /\ vrf_requests'[k][1].randomness = vrf_requests[k][1].randomness

C3_NeverRearmed == [][C3_FulfilledStep]_vars

\* ------------------------------------------------------------ C4
C4_Rejected ==
    \A k \in RoundIds :
        (Requested(k) /\ vrf_requests[k][1].fulfilled) =>
            /\ vrf_callback_err(k) = "RandomnessAlreadyConsumed"
            /\ \A lottery_given \in BOOLEAN :
                  consume_randomness_err(k, lottery_given) = "RandomnessAlreadyConsumed"

C4_Step ==
    \A k \in RoundIds :
        (Requested(k) /\ vrf_requests[k][1].fulfilled) =>
            /\ \A value \in RandInputs :
                  vrf_callback(k, value) => UNCHANGED <<vrf_requests, lotteries>>
            /\ \A lottery_given \in BOOLEAN, slot \in SlotInputs :
                  consume_randomness_and_pick_winner(k, lottery_given, slot)
                      => UNCHANGED <<vrf_requests, lotteries>>

\* C4: vrf_callback and consume_randomness_and_pick_winner on a request whose
\* fulfilled flag is set end with RandomnessAlreadyConsumed and change neither
\* the request (its stored value included) nor any round.
C4_ReplayRejected == []C4_Rejected /\ [][C4_Step]_vars

\* A request fulfilled by vrf_callback, holding a value, where a second
\* fulfilment is rejected.
C4_Witness ==
    \E k \in RoundIds :
        /\ Requested(k)
        /\ vrf_requests[k][1].fulfilled
        /\ vrf_requests[k][1].randomness # None
        /\ vrf_callback_err(k) = "RandomnessAlreadyConsumed"

\* ------------------------------------------------------------ C5
\* C5: in every round that is not Closed, the prices of the non-bonus tickets
\* add up to pool_balance + commission_balance.
C5_OpenRoundConservation ==
    \A ref \in RoundRefs :
        RoundAt(ref).status # "Closed" =>
            NonBonusSum(RoundAt(ref).tickets)
                = RoundAt(ref).pool_balance + RoundAt(ref).commission_balance

\* An unclosed round bought into by both players, before and after the fee
\* was lowered from 20 to 0.
C5_Witness ==
    \E ref \in RoundRefs :
        /\ RoundAt(ref).status # "Closed"
        /\ \A p \in Players :
              \E i \in DOMAIN RoundAt(ref).tickets : RoundAt(ref).tickets[i].owner = p
        /\ RoundAt(ref).commission_balance > 0
        /\ lottery_state.entrance_fee_percentage = 0

\* ------------------------------------------------------------ C6
\* C6 as stated: what claim_prize releases for a Closed round, pool_balance
\* plus commission_balance, is the sum of the prices of its non-bonus tickets.
C6_ClosedRoundReleasesAll ==
    \A ref \in RoundRefs :
        RoundAt(ref).status = "Closed" =>
            RoundAt(ref).pool_balance + RoundAt(ref).commission_balance
                = NonBonusSum(RoundAt(ref).tickets)

\* ------------------------------------------------------------ C7
C7_OneBonus ==
    \A ref \in RoundRefs :
        LET tickets == RoundAt(ref).tickets
        IN  /\ Cardinality(BonusIndices(tickets)) <= 1
            /\ \A i \in BonusIndices(tickets) :
                  /\ tickets[i].price = 0
                  /\ tickets[i].owner = tickets[1].owner

C7_Step ==
    \A ref \in RoundRefs :
        RoundAt(ref).tickets # <<>> =>
            BonusIndices(RoundAtNext(ref).tickets) = BonusIndices(RoundAt(ref).tickets)

\* C7: a round holds at most one bonus ticket; it has price 0 and belongs to
\* the owner of the round's first ticket, the first purchaser; no step adds a
\* bonus ticket to a round that already has tickets.
C7_SingleBonus == []C7_OneBonus /\ [][C7_Step]_vars

\* A round with its bonus ticket followed by tickets of later purchases by
\* the first purchaser and by the other player.
C7_Witness ==
    \E ref \in RoundRefs :
        LET tickets == RoundAt(ref).tickets
        IN  /\ Cardinality(BonusIndices(tickets)) = 1
            /\ \A p \in Players :
                  \E i \in DOMAIN tickets, b \in BonusIndices(tickets) :
                      i > b /\ tickets[i].owner = p

\* ------------------------------------------------------------ C8
Resolved(round, tickets, randomness) ==
    /\ round.status = "Closed"
    /\ round.winner_ticket_index = Some(randomness % Len(tickets))
    /\ round.winner_address = Some(tickets[(randomness % Len(tickets)) + 1].owner)

C8_Step ==
    /\ \A a \in Assets, randomness \in RandInputs :
          (close_round_err(a) = "Ok" /\ close_round_and_pick_winner(a, randomness)) =>
              Resolved(lotteries'[a][Len(lotteries[a])],
                       lotteries[a][Len(lotteries[a])].tickets, randomness)
    /\ \A k \in RoundIds, slot \in SlotInputs :
          ( /\ consume_randomness_err(k, TRUE) = "Ok"
            /\ consume_randomness_and_pick_winner(k, TRUE, slot) ) =>
              LET a == asset_of(vrf_requests[k][1].token_mint)
              IN  Resolved(lotteries'[a][k + 1], lotteries[a][k + 1].tickets,
                           pseudo_randomness(slot, now, k))

\* C8: a resolution with randomness r of a round holding n tickets sets
\* winner_ticket_index to r mod n and winner_address to the owner of the
\* ticket at that index, on the administrator path and on the oracle path.
C8_WinnerIsRandomnessModCount == [][C8_Step]_vars

\* A round resolved to a ticket that is neither the first nor the last.
C8_Witness ==
    \E ref \in RoundRefs :
        /\ RoundAt(ref).status = "Closed"
        /\ RoundAt(ref).winner_ticket_index = Some(1)
        /\ Len(RoundAt(ref).tickets) = 4

\* ------------------------------------------------------------ C9
C9_FirstPurchaseShape ==
    \A ref \in RoundRefs :
        LET tickets == RoundAt(ref).tickets
        IN  tickets # <<>> =>
                \E c \in 1..MAX_TICKETS_PER_PLAYER :
                    /\ Len(tickets) >= c + 1
                    /\ \A i \in 1..c : /\ ~tickets[i].is_bonus
                                       /\ tickets[i].owner = tickets[1].owner
                    /\ tickets[c + 1].is_bonus
                    /\ tickets[c + 1].owner = tickets[1].owner

C9_Step ==
    \A ref \in RoundRefs : IsPrefix(RoundAt(ref).tickets, RoundAtNext(ref).tickets)

\* C9: the ledger is append-only.  A nonempty ledger starts with the c
\* tickets of the first purchaser followed by that player's bonus ticket at
\* index c, and every step leaves the tickets already in a ledger where they
\* are, adding new ones only after them.
C9_AppendOnly == []C9_FirstPurchaseShape /\ [][C9_Step]_vars

\* A bought 3, then B bought 1: the ledger is [A, A, A, A(bonus), B], and
\* randomness 7 resolved the round to index 2, a ticket of A.
C9_Witness ==
    \E ref \in RoundRefs :
        /\ Owners(RoundAt(ref).tickets) = <<"A", "A", "A", "A", "B">>
        /\ BonusIndices(RoundAt(ref).tickets) = {4}
        /\ RoundAt(ref).winner_ticket_index = Some(7 % 5)
        /\ RoundAt(ref).winner_ticket_index = Some(2)
        /\ RoundAt(ref).winner_address = Some("A")

\* ------------------------------------------------------------ C10
C10_Rejected ==
    \A ref \in RoundRefs, caller \in Players :
        ( /\ RoundAt(ref).status = "Closed"
          /\ RoundAt(ref).winner_address # Some(caller) ) =>
              claim_prize_err(ref[1], ref[2], caller) = "NotTheWinner"

C10_Step ==
    \A ref \in RoundRefs, caller \in Players :
        ( /\ RoundAt(ref).status = "Closed"
          /\ RoundAt(ref).winner_address # Some(caller)
          /\ claim_prize(ref[1], ref[2], caller) ) =>
              /\ UNCHANGED <<lotteries, vault>>
              /\ \A winner \in Players :
                    claim_prize_err(ref[1], ref[2], winner)'
                        = claim_prize_err(ref[1], ref[2], winner)

\* C10: claim_prize on a Closed round by a caller who is not its winner ends
\* with NotTheWinner and changes neither the round (prize_claimed included)
\* nor a vault, so the winner's own claim fares as it would have before.
C10_NotTheWinner == []C10_Rejected /\ [][C10_Step]_vars

\* A Closed, unclaimed round: the other player is turned away and the winner
\* can claim.
C10_Witness ==
    \E ref \in RoundRefs, caller \in Players, winner \in Players :
        /\ RoundAt(ref).status = "Closed"
        /\ ~RoundAt(ref).prize_claimed
        /\ RoundAt(ref).winner_address = Some(winner)
        /\ claim_prize_err(ref[1], ref[2], caller) = "NotTheWinner"
        /\ claim_prize_err(ref[1], ref[2], winner) = "Ok"

\* ------------------------------------------------------------ C11
C11_Rejected ==
    /\ \A ref \in RoundRefs, caller \in Players :
          RoundAt(ref).status # "Closed" =>
              claim_prize_err(ref[1], ref[2], caller) = "RoundNotClosed"
    /\ \A ref \in RoundRefs :
          RoundAt(ref).prize_claimed =>
              /\ RoundAt(ref).status = "Closed"
              /\ RoundAt(ref).winner_address # None

C11_Step ==
    /\ \A ref \in RoundRefs :
          RoundAt(ref).status # "Closed" =>
              /\ RoundAtNext(ref).prize_claimed = RoundAt(ref).prize_claimed
              /\ \A caller \in Players :
                    claim_prize(ref[1], ref[2], caller) => UNCHANGED <<lotteries, vault>>
    /\ \A a \in Assets :
          vault'[a] < vault[a] =>
              \/ \E ref \in RoundRefs :
                    /\ ref[1] = a
                    /\ RoundAt(ref).status = "Closed"
                    /\ ~RoundAt(ref).prize_claimed
                    /\ RoundAtNext(ref).prize_claimed
              \/ withdraw_commission(a, ticket_price(a))

\* C11: claim_prize on a round that is Open or waiting for its randomness is
\* rejected with RoundNotClosed and changes neither a round nor a vault; a
\* round with prize_claimed set is Closed and has a winner; and a vault is
\* paid out of only by the claim of a Closed round (or by the authority's
\* withdraw_commission).
C11_NoReleaseBeforeClosed == []C11_Rejected /\ [][C11_Step]_vars

\* A round waiting for its randomness, holding tickets and their payment,
\* on which the first purchaser's claim is rejected.
C11_Witness ==
    \E ref \in RoundRefs :
        /\ RoundAt(ref).status = "PendingVrf"
        /\ RoundAt(ref).pool_balance > 0
        /\ vault[ref[1]] >= RoundAt(ref).pool_balance + RoundAt(ref).commission_balance
        /\ claim_prize_err(ref[1], ref[2], RoundAt(ref).tickets[1].owner) = "RoundNotClosed"

\* ------------------------------------------------------------ C12
InvalidCounts == {0, MAX_TICKETS_PER_PLAYER + 1, MAX_TICKETS_PER_PLAYER + 2}

C12_Rejected ==
    \A a \in Assets, funded \in BOOLEAN :
        /\ \A count \in InvalidCounts :
              buy_tickets_err(a, count, funded) = "InvalidTicketCount"
        /\ \A count \in 1..MAX_TICKETS_PER_PLAYER :
              buy_tickets_err(a, count, funded) # "InvalidTicketCount"

C12_Step ==
    \A a \in Assets, player \in Players, count \in InvalidCounts, funded \in BOOLEAN :
        buy_tickets(a, player, count, funded) => UNCHANGED accounts

\* C12: buy_tickets with count 0 or a count above MAX_TICKETS_PER_PLAYER ends
\* with InvalidTicketCount, whatever the pool, the payment and the state, and
\* changes no account; no count in 1..MAX_TICKETS_PER_PLAYER ends with
\* InvalidTicketCount.
C12_InvalidTicketCount == []C12_Rejected /\ [][C12_Step]_vars

\* A supported token pool with an Open round taking purchases: count 6 is
\* turned away with InvalidTicketCount where count 5 would be accepted.
C12_Witness ==
    /\ lotteries["TOK"] # <<>>
    /\ has_active_round(lotteries["TOK"], now)
    /\ buy_tickets_err("TOK", MAX_TICKETS_PER_PLAYER + 1, TRUE) = "InvalidTicketCount"
    /\ buy_tickets_err("TOK", MAX_TICKETS_PER_PLAYER, TRUE) = "Ok"

\* ------------------------------------------------------------ C13
C13_Bounded ==
    /\ lottery_state.entrance_fee_percentage <= MAX_ENTRANCE_FEE
    /\ \A fee \in FeeInputs :
          fee > MAX_ENTRANCE_FEE =>
              /\ initialize_lottery_err(fee) = "InvalidEntranceFee"
              /\ update_entrance_fee_err(fee) = "InvalidEntranceFee"

C13_Step ==
    /\ \A fee \in FeeInputs :
          (fee > MAX_ENTRANCE_FEE /\ update_entrance_fee(fee)) =>
              UNCHANGED lottery_state
    /\ lottery_state'.entrance_fee_percentage # lottery_state.entrance_fee_percentage =>
          \E fee \in FeeInputs :
              /\ fee <= MAX_ENTRANCE_FEE
              /\ update_entrance_fee(fee)
              /\ lottery_state'.entrance_fee_percentage = fee

\* C13: the stored entrance_fee_percentage never exceeds 20.
\* initialize_lottery and update_entrance_fee answer InvalidEntranceFee to
\* every value above 20 and leave the stored fee alone, and the stored fee
\* changes only in an update_entrance_fee of a value of at most 20.
C13_FeeAtMostTwenty == []C13_Bounded /\ [][C13_Step]_vars

\* The fee set by initialize_lottery was replaced by update_entrance_fee
\* after tickets were sold under it, and 21 is still refused.
C13_Witness ==
    /\ lottery_state.entrance_fee_percentage = 0
    /\ \E ref \in RoundRefs : RoundAt(ref).commission_balance > 0
    /\ update_entrance_fee_err(MAX_ENTRANCE_FEE + 1) = "InvalidEntranceFee"

C15_Rejected ==
    /\ \A a \in Assets :
          lotteries[a] # <<>> =>
              LET round == lotteries[a][Len(lotteries[a])]
              IN  /\ round.status # "Open" =>
                        auto_close_round_err(a) = "RoundNotOpen"
                  /\ (round.status = "Open" /\ now < round.end_time) =>
                        auto_close_round_err(a) = "RoundStillActive"
    /\ \A ref \in RoundRefs :
          RoundAt(ref).status = "PendingVrf" => now >= RoundAt(ref).end_time

C15_Step ==
    /\ \A ref \in RoundRefs :
          ( /\ RoundAt(ref).status # "PendingVrf"
            /\ RoundAtNext(ref).status = "PendingVrf" ) =>
              /\ RoundAt(ref).status = "Open"
              /\ now >= RoundAt(ref).end_time
    /\ \A a \in Assets :
          (auto_close_round_err(a) # "Ok" /\ auto_close_round(a)) =>
              UNCHANGED lotteries

\* C15: a round becomes PendingVrf only from Open and only when
\* now >= end_time.  auto_close_round on a latest round that is not Open ends
\* with RoundNotOpen, on an Open one with now < end_time with RoundStillActive,
\* and changes no round in either case; no step of any instruction,
\* batch_process_rounds included, marks a round before its end_time.
C15_PendingOnlyAfterEnd == []C15_Rejected /\ [][C15_Step]_vars

\* A pool whose first round was marked after its end_time and whose latest
\* round is Open and running: auto_close_round answers RoundStillActive.
C15_Witness ==
    \E a \in Assets :
        /\ Len(lotteries[a]) = 2
        /\ lotteries[a][1].status = "PendingVrf"
        /\ lotteries[a][2].status = "Open"
        /\ auto_close_round_err(a) = "RoundStillActive"

\* ------------------------------------------------------------ C16
\* C16 as stated: a round waiting for its randomness, with tickets, is
\* accepted by both resolution paths: close_round_and_pick_winner on it, and
\* consume_randomness_and_pick_winner with its unfulfilled request and its
\* pool account, end with Ok.
C16_PendingResolvable ==
    \A ref \in RoundRefs :
        (RoundAt(ref).status = "PendingVrf" /\ RoundAt(ref).tickets # <<>>) =>
            /\ IsLatest(ref) => close_round_err(ref[1]) = "Ok"
            /\ \A k \in RoundIds :
                  (BoundTo(k, ref) /\ ~vrf_requests[k][1].fulfilled) =>
                      consume_randomness_err(k, TRUE) = "Ok"

\* ------------------------------------------------------------ C17
C17_Step ==
    \A k \in RoundIds, slot \in SlotInputs :
        ( /\ consume_randomness_err(k, TRUE) = "Ok"
          /\ consume_randomness_and_pick_winner(k, TRUE, slot) ) =>
            /\ vrf_requests[k][1].fulfilled
            /\ vrf_requests[k][1].randomness # None
            /\ LET a == asset_of(vrf_requests[k][1].token_mint)
                   value == vrf_requests[k][1].randomness[1]
               IN  lotteries'[a][k + 1].winner_ticket_index
                       = Some(value % Len(lotteries[a][k + 1].tickets))

\* C17 as stated: a step of consume_randomness_and_pick_winner that resolves
\* a round finds the round's request fulfilled by vrf_callback, holding the
\* delivered value, and the winner index it writes is that value mod the
\* number of tickets.
C17_OracleHandshake == [][C17_Step]_vars

\* ------------------------------------------------------------ C18
\* has_active_lottery is clear, rounds exist and last_timestamp is not ahead
\* of the clock: the flag was last written by emergency_pause.
\* (get_or_create_round sets the flag when it pushes a round, and
\* perform_upkeep, the other instruction that clears it, moves last_timestamp
\* to the next period boundary, ahead of the clock.)
PausedByAuthority ==
    /\ ~lottery_state.has_active_lottery
    /\ lottery_state.last_timestamp <= now
    /\ \E a \in Assets : lotteries[a] # <<>>

C18_Step ==
    \A a \in Assets :
        (PausedByAuthority /\ ~has_active_round(lotteries[a], now)) =>
            Len(lotteries'[a]) = Len(lotteries[a])

\* C18 as stated: while the flag cleared by emergency_pause is still clear, no
\* step appends a round to a pool that has no Open, unexpired round.
C18_PauseStopsNewRounds == [][C18_Step]_vars

\* ------------------------------------------------------------ C19
C19_OnlyWhenDue ==
    /\ check_upkeep => perform_upkeep_err = "Ok"
    /\ ~check_upkeep => perform_upkeep_err = "UpkeepNotNeeded"

C19_Step ==
    /\ (perform_upkeep_err = "Ok" /\ perform_upkeep) =>
          /\ ~check_upkeep'
          /\ perform_upkeep_err' = "UpkeepNotNeeded"
    /\ (perform_upkeep_err # "Ok" /\ perform_upkeep) =>
          UNCHANGED <<lottery_state, lotteries>>

\* C19: perform_upkeep ends with Ok exactly when check_upkeep answers true
\* (now > last_timestamp and has_active_lottery) and with UpkeepNotNeeded
\* otherwise, changing neither the registry nor a round; right after a
\* successful perform_upkeep the next one is rejected with UpkeepNotNeeded.
C19_UpkeepOnlyWhenDue == []C19_OnlyWhenDue /\ [][C19_Step]_vars

\* The state a successful perform_upkeep leaves: rounds exist, the flag is
\* clear, last_timestamp is the next period boundary, and a second
\* perform_upkeep is refused.
C19_Witness ==
    /\ \E a \in Assets : lotteries[a] # <<>>
    /\ ~lottery_state.has_active_lottery
    /\ lottery_state.last_timestamp = get_next_round_time(now)
    /\ perform_upkeep_err = "UpkeepNotNeeded"

\* ------------------------------------------------------------ C20
C20_Step ==
    (perform_upkeep_err = "Ok" /\ perform_upkeep) =>
        \A a \in Assets :
            LET id == Len(lotteries[a])
            IN  ( /\ id > 0
                  /\ (id - 1) \in RoundIds
                  /\ lotteries[a][id].status = "Open"
                  /\ now >= lotteries[a][id].end_time ) =>
                    /\ lotteries'[a][id].status = "PendingVrf"
                    /\ vrf_requests'[id - 1] # None
                    /\ ~vrf_requests'[id - 1][1].fulfilled

\* C20 as stated: a successful perform_upkeep leaves the current round of
\* every pool, when it was Open with its end_time passed, waiting for
\* randomness with an unfulfilled request recorded for it.
C20_UpkeepClosesExpiredRounds == [][C20_Step]_vars

\* ------------------------------------------------------------ C21
\* Amounts above, and amounts within, the balance of the vault of asset a.
ExceedingAmounts(a) == {vault[a] + 1, vault[a] + ticket_price(a)}

CoveredAmounts(a) == {0, vault[a]}

C21_Rejected ==
    /\ \A a \in Assets : vault[a] >= 0
    /\ \A amount \in ExceedingAmounts("SOL") :
          withdraw_commission_err("SOL", amount) = "InsufficientFunds"
    /\ \A a \in Assets \ {"SOL"} :
          \A amount \in ExceedingAmounts(a) :
              withdraw_commission_err(a, amount) = "TransferFailed"
    /\ \A a \in Assets :
          \A amount \in CoveredAmounts(a) :
              withdraw_commission_err(a, amount) = "Ok"

C21_Step ==
    \A a \in Assets :
        LET amount == ticket_price(a)
        IN  withdraw_commission(a, amount) =>
                /\ UNCHANGED lotteries
                /\ \A b \in Assets \ {a} : vault'[b] = vault[b]
                /\ vault'[a] = IF amount > vault[a] THEN vault[a] ELSE vault[a] - amount

C22_Step ==
    \A a \in Assets, player \in Players, count \in CountInputs, funded \in BOOLEAN :
        (buy_tickets_err(a, count, funded) = "Ok" /\ buy_tickets(a, player, count, funded)) =>
            LET n == Len(lotteries[a])
                reused == /\ n > 0
                          /\ lotteries[a][n].status = "Open"
                          /\ now < lotteries[a][n].end_time
                target == lotteries'[a][Len(lotteries'[a])]
                bought == SubSeq(target.tickets,
                                 Len(target.tickets) - count + 1
                                     - (IF reused THEN 0 ELSE 1),
                                 Len(target.tickets))
            IN  /\ Len(lotteries'[a]) = IF reused THEN n ELSE n + 1
                /\ \A i \in 1..(IF reused THEN n - 1 ELSE n) :
                      lotteries'[a][i] = lotteries[a][i]
                /\ \A i \in DOMAIN bought : bought[i].owner = player
                /\ reused =>
                      /\ Len(target.tickets) = Len(lotteries[a][n].tickets) + count
                      /\ IsPrefix(lotteries[a][n].tickets, target.tickets)
                /\ ~reused =>
                      /\ target.status = "Open"
                      /\ target.start_time = now
                      /\ target.pool_balance + target.commission_balance
                             = ticket_price(a) * count
                      /\ Len(target.tickets) = count + 1
                      /\ target.winner_address = None
                      /\ ~target.prize_claimed

\* C22: a successful purchase puts its tickets into the pool's latest round,
\* creating none, exactly when that round is Open and now < end_time.
\* Otherwise it appends one round, with the id Len of the old list, status
\* Open, start_time = now, and holding nothing but this purchase: its
\* balances add up to the cost and its ledger is the count tickets and the
\* bonus ticket.  The rounds that were there keep their places and values.
C22_LatestOrNewRound == [][C22_Step]_vars

\* A pool whose first round took the purchases of both players and, being
\* Open but expired, was followed by a round that starts at its end_time
\* or later.
C22_Witness ==
    \E a \in Assets :
        /\ Len(lotteries[a]) = 2
        /\ lotteries[a][1].status = "Open"
        /\ \A p \in Players :
              \E i \in DOMAIN lotteries[a][1].tickets : lotteries[a][1].tickets[i].owner = p
        /\ lotteries[a][2].start_time >= lotteries[a][1].end_time

\* ------------------------------------------------------------ C23
\* C23 as stated: every round lasts ROUND_DURATION, end_time is
\* start_time + ROUND_DURATION.
C23_FixedDuration ==
    \A ref \in RoundRefs :
        RoundAt(ref).end_time = RoundAt(ref).start_time + ROUND_DURATION

\* C23 (amended): the end_time of a round created at time now is the next
\* multiple of ROUND_DURATION after now, now - (now mod ROUND_DURATION) +
\* ROUND_DURATION; a round lasts at most ROUND_DURATION, and exactly that
\* only when it is created on a multiple of ROUND_DURATION.
C23_EndAtNextBoundary ==
    \A ref \in RoundRefs :
        LET start_time == RoundAt(ref).start_time
            end_time == RoundAt(ref).end_time
        IN  /\ end_time = start_time - (start_time % ROUND_DURATION) + ROUND_DURATION
            /\ end_time % ROUND_DURATION = 0
            /\ end_time - start_time > 0
            /\ end_time - start_time <= ROUND_DURATION
            /\ (end_time - start_time = ROUND_DURATION) <=> (start_time % ROUND_DURATION = 0)

\* A round created half way through a period, lasting half of ROUND_DURATION,
\* and one created on the boundary, lasting ROUND_DURATION.
C23_Witness ==
    /\ \E ref \in RoundRefs :
          RoundAt(ref).end_time - RoundAt(ref).start_time = ROUND_DURATION \div 2
    /\ \E ref \in RoundRefs :
          RoundAt(ref).end_time - RoundAt(ref).start_time = ROUND_DURATION

\* ------------------------------------------------------------ C24
\* C24 as stated: a round is appended only to a pool with no rounds or with
\* its latest round Closed, so only the latest round of a pool may be
\* other than Closed.
C24_OnlyLatestNotClosed ==
    \A ref \in RoundRefs : RoundAt(ref).status # "Closed" => IsLatest(ref)

\* An Open round whose end_time is still ahead.
IsActive(round) == round.status = "Open" /\ now < round.end_time

C24_OneActive ==
    \A ref \in RoundRefs : IsActive(RoundAt(ref)) => IsLatest(ref)

C24_Step ==
    \A a \in Assets :
        Len(lotteries'[a]) # Len(lotteries[a]) =>
            /\ Len(lotteries'[a]) = Len(lotteries[a]) + 1
            /\ \/ lotteries[a] = <<>>
               \/ ~IsActive(lotteries[a][Len(lotteries[a])])

\* C24 (amended): a round is appended, one at a time, only when the pool has
\* no rounds or its latest round is no longer Open with now < end_time: the
\* latest round may be Closed, PendingVrf, or Open and expired.  Hence each
\* pool has at most one Open round whose end_time is ahead, and it is the
\* latest; earlier rounds may still be unresolved.
C24_AppendWhenNoActiveRound == []C24_OneActive /\ [][C24_Step]_vars

\* A round marked PendingVrf, unresolved, followed by a newer Open round of
\* the same pool.
C24_Witness ==
    \E a \in Assets :
        /\ Len(lotteries[a]) = 2
        /\ lotteries[a][1].status = "PendingVrf"
        /\ lotteries[a][2].status = "Open"

\* ------------------------------------------------------------ C25
\* C25: winner_address and winner_ticket_index are both set exactly when the
\* round is Closed and both unset otherwise; when set, the index is a
\* position of the ledger and the address is the owner of the ticket there.
C25_WinnerIffClosed ==
    \A ref \in RoundRefs :
        LET round == RoundAt(ref)
        IN  /\ (round.winner_address # None) <=> (round.status = "Closed")
            /\ (round.winner_ticket_index # None) <=> (round.status = "Closed")
            /\ round.status = "Closed" =>
                  /\ round.winner_ticket_index[1] \in 0..(Len(round.tickets) - 1)
                  /\ round.winner_address
                         = Some(round.tickets[round.winner_ticket_index[1] + 1].owner)

\* A Closed round won by a ticket that is not the first of the ledger and
\* whose owner is not the first buyer.
C25_Witness ==
    \E ref \in RoundRefs :
        LET round == RoundAt(ref)
        IN  /\ round.status = "Closed"
            /\ round.winner_ticket_index[1] > 0
            /\ round.winner_address # Some(round.tickets[1].owner)

\* ------------------------------------------------------------ C26
C26_Step ==
    /\ \A ref \in RoundRefs :
          RoundAt(ref).status = "Closed" =>
              /\ RoundAtNext(ref).status = "Closed"
              /\ RoundAtNext(ref).pool_balance = RoundAt(ref).pool_balance
              /\ RoundAtNext(ref).commission_balance = RoundAt(ref).commission_balance
              /\ RoundAtNext(ref).tickets = RoundAt(ref).tickets
              /\ RoundAtNext(ref).winner_address = RoundAt(ref).winner_address
              /\ RoundAtNext(ref).winner_ticket_index = RoundAt(ref).winner_ticket_index
    /\ \A a \in Assets, round_id \in RoundIds, caller \in Players :
          claim_prize(a, round_id, caller) =>
              \A b \in Assets :
                  /\ Len(lotteries'[b]) = Len(lotteries[b])
                  /\ \A i \in DOMAIN lotteries[b] :
                        lotteries'[b][i]
                            = [lotteries[b][i] EXCEPT !.prize_claimed =
                                   lotteries'[b][i].prize_claimed]

\* C26: once a round is Closed it stays Closed and its pool_balance,
\* commission_balance, ticket ledger and winner never change again;
\* claim_prize changes nothing of any round but the prize_claimed flag.
C26_ClosedRoundFrozen == [][C26_Step]_vars

\* A Closed round whose end_time is still ahead, and a purchase made after
\* it closed: the purchase went into a new round.
C26_Witness ==
    \E a \in Assets :
        /\ Len(lotteries[a]) = 2
        /\ lotteries[a][1].status = "Closed"
        /\ now < lotteries[a][1].end_time
        /\ Len(lotteries[a][2].tickets) > 0

\* ------------------------------------------------------------ C27
\* The number of tickets of `tickets` owned by player p.
RECURSIVE OwnedIn(_, _)
OwnedIn(tickets, p) ==
    IF tickets = <<>> THEN 0
    ELSE (IF Head(tickets).owner = p THEN 1 ELSE 0) + OwnedIn(Tail(tickets), p)

\* The number of tickets owned by p in the rounds of `rounds`.
RECURSIVE OwnedAcross(_, _)
OwnedAcross(rounds, p) ==
    IF rounds = <<>> THEN 0
    ELSE OwnedIn(Head(rounds).tickets, p) + OwnedAcross(Tail(rounds), p)

\* C27: for every pool and player, tickets_count is the number of tickets,
\* bonus tickets included, the player owns in all rounds of that pool, and
\* has_bonus_ticket is true exactly when one of them is a bonus ticket.
C27_PlayerAccountMatchesLedgers ==
    \A p \in Players, a \in Assets :
        /\ player_data[p, a].tickets_count = OwnedAcross(lotteries[a], p)
        /\ player_data[p, a].has_bonus_ticket <=>
              \E i \in DOMAIN lotteries[a] :
                  \E j \in DOMAIN lotteries[a][i].tickets :
                      /\ lotteries[a][i].tickets[j].owner = p
                      /\ lotteries[a][i].tickets[j].is_bonus

\* One pool where a player holds tickets of two rounds, bonus tickets among
\* them, and the other player holds tickets and no bonus ticket.
C27_Witness ==
    \E a \in Assets, p \in Players, q \in Players :
        /\ Len(lotteries[a]) = 2
        /\ OwnedIn(lotteries[a][1].tickets, p) > 0
        /\ OwnedIn(lotteries[a][2].tickets, p) > 0
        /\ player_data[p, a].has_bonus_ticket
        /\ player_data[q, a].tickets_count > 0
        /\ ~player_data[q, a].has_bonus_ticket

\* ------------------------------------------------------------ C28
C28_Step ==
    \A k \in RoundIds, a \in Assets :
        (/\ Requested(k)
         /\ asset_of(vrf_requests[k][1].token_mint) # a
         /\ request_randomness_for_round(a, k)) =>
            vrf_requests'[k] = vrf_requests[k]

\* C28: a request recorded for round k of one pool does not create,
\* overwrite or re-arm the request held for round k of another pool: the
\* request of the other pool is the same before and after.
C28_RequestsPerPool == [][C28_Step]_vars

\* ------------------------------------------------------------ C29
\* C29: on a round either path can resolve, and for the same randomness,
\* close_round_and_pick_winner and the pick of
\* consume_randomness_and_pick_winner leave the same winner_address,
\* winner_ticket_index, status, pool_balance and commission_balance.
C29_PathsAgree ==
    \A a \in Assets, randomness \in RandInputs :
        (/\ close_round_err(a) = "Ok"
         /\ pick_winner_for_lottery_err(lotteries[a], Len(lotteries[a]) - 1) = "Ok") =>
            LET round == lotteries[a][Len(lotteries[a])]
                admin == close_split(pick_winner(round, randomness),
                                     lottery_state.entrance_fee_percentage)
                oracle == pick_winner(round, randomness)
            IN  /\ admin.winner_address = oracle.winner_address
                /\ admin.winner_ticket_index = oracle.winner_ticket_index
                /\ admin.status = oracle.status
                /\ admin.pool_balance = oracle.pool_balance
                /\ admin.commission_balance = oracle.commission_balance

\* ------------------------------------------------------------ C30
C30_Step ==
    \A k \in RoundIds, lottery_given \in BOOLEAN, slot \in SlotInputs :
        (/\ consume_randomness_err(k, lottery_given) = "Ok"
         /\ k < Len(lotteries[asset_of(vrf_requests[k][1].token_mint)])
         /\ consume_randomness_and_pick_winner(k, lottery_given, slot)) =>
            LET rounds == lotteries'[asset_of(vrf_requests[k][1].token_mint)]
            IN  /\ vrf_requests'[k][1].fulfilled
                /\ rounds[k + 1].status = "Closed"
                /\ rounds[k + 1].winner_address # None

\* C30: whenever consume_randomness_and_pick_winner succeeds on the request
\* of an existing round and marks it fulfilled, that round is Closed with a
\* winner in the same transaction.
C30_ConsumeAllOrNothing == [][C30_Step]_vars

\* ------------------------------------------------------------ C31
\* The place of a status in the order Open, PendingVrf, Closed.
StatusRank(status) ==
    CASE status = "Open" -> 0
      [] status = "PendingVrf" -> 1
      [] status = "Closed" -> 2

C31_Step ==
    \A ref \in RoundRefs :
        /\ ref[2] < Len(lotteries'[ref[1]])
        /\ StatusRank(RoundAtNext(ref).status) >= StatusRank(RoundAt(ref).status)
        /\ RoundAt(ref).status = "Closed" => RoundAtNext(ref).status = "Closed"

\* C31: the status of a round only moves forward in the order Open,
\* PendingVrf, Closed: no transition takes a round back to an earlier
\* status, no round disappears, and a Closed round stays Closed.
C31_StatusForwardOnly == [][C31_Step]_vars

\* A Closed round, latest of its pool, whose end_time has passed: the state
\* in which auto_close_round and batch_process_rounds meet a Closed round
\* that is due.
C31_Witness ==
    \E ref \in RoundRefs :
        /\ IsLatest(ref)
        /\ RoundAt(ref).status = "Closed"
        /\ now >= RoundAt(ref).end_time
        /\ auto_close_round_err(ref[1]) = "RoundNotOpen"

\* ------------------------------------------------------------ C32
\* pool_balance + commission_balance over the rounds whose prize is unclaimed.
RECURSIVE UnclaimedSum(_)
UnclaimedSum(rounds) ==
    IF rounds = <<>> THEN 0
    ELSE (IF Head(rounds).prize_claimed THEN 0
          ELSE Head(rounds).pool_balance + Head(rounds).commission_balance)
         + UnclaimedSum(Tail(rounds))

\* C32: for each asset the vault holds at least the pool_balance and
\* commission_balance of all rounds of the asset whose prize has not been
\* claimed, so every claim_prize can be paid in full.
C32_VaultCoversUnclaimed ==
    \A a \in Assets : vault[a] >= UnclaimedSum(lotteries[a])

\* ------------------------------------------------------------ C33
\* C33: every round of every pool has a ledger of at least one paid ticket
\* and exactly one bonus ticket, and neither resolution operation can end
\* with NoTicketsInRound.
C33_PaidAndOneBonus ==
    /\ \A ref \in RoundRefs :
          LET tickets == RoundAt(ref).tickets
          IN  /\ Cardinality(BonusIndices(tickets)) = 1
              /\ \E i \in DOMAIN tickets : ~tickets[i].is_bonus
              /\ Len(tickets) >= 2
    /\ \A a \in Assets : close_round_err(a) # "NoTicketsInRound"
    /\ \A k \in RoundIds, lottery_given \in BOOLEAN :
          consume_randomness_err(k, lottery_given) # "NoTicketsInRound"

\* Two rounds of one pool, each with paid tickets and its own bonus ticket,
\* the latest one accepted by close_round_and_pick_winner.
C33_Witness ==
    \E a \in Assets :
        /\ Len(lotteries[a]) = 2
        /\ \A i \in 1..2 : Cardinality(BonusIndices(lotteries[a][i].tickets)) = 1
        /\ close_round_err(a) = "Ok"

\* ------------------------------------------------------------ C34
\* The number of tickets of `tickets` that p bought (bonus tickets left out).
RECURSIVE PaidIn(_, _)
PaidIn(tickets, p) ==
    IF tickets = <<>> THEN 0
    ELSE (IF Head(tickets).owner = p /\ ~Head(tickets).is_bonus THEN 1 ELSE 0)
         + PaidIn(Tail(tickets), p)

\* C34: in no round does a player hold more than MAX_TICKETS_PER_PLAYER
\* tickets other than the bonus ticket.
C34_AtMostFivePerRound ==
    \A ref \in RoundRefs, p \in Players :
        PaidIn(RoundAt(ref).tickets, p) <= MAX_TICKETS_PER_PLAYER

====
